---- MODULE Spec2Model ----
(***************************************************************************)
(* Model of read_vcf.py: a single pass over the lines of a gzip-compressed *)
(* variant-call file that skips the lines starting with "#", decodes the   *)
(* per-sample genotype fields of every other line and counts those lines.  *)
(*                                                                         *)
(* A text line is a sequence of one-character strings.                     *)
(***************************************************************************)
EXTENDS Integers, Sequences, FiniteSets, TLC

TAB == "\t"
NL  == "\n"
SP  == " "

(* Bounds of the explored inputs. *)
MaxLines == 2   \* lines in the file
MaxBody  == 2   \* characters, over the whole file, that follow the lines' fixed prefixes

(* Characters that str.strip() removes, among those of the inputs. *)
Whitespace == {SP, TAB, NL}

Digits == <<"0", "1", "2", "3", "4", "5", "6", "7", "8", "9">>

DigitChars == {Digits[i] : i \in 1..10}

DigitValue(c) == (CHOOSE i \in 1..10 : Digits[i] = c) - 1

----------------------------------------------------------------------------
(* String functions of the Python runtime used by the script. *)

\* str.startswith(prefix)
StartsWith(s, prefix) ==
    /\ Len(s) >= Len(prefix)
    /\ SubSeq(s, 1, Len(prefix)) = prefix

RECURSIVE LStrip(_)
LStrip(s) ==
    IF s # <<>> /\ Head(s) \in Whitespace THEN LStrip(Tail(s)) ELSE s

RECURSIVE RStrip(_)
RStrip(s) ==
    IF s # <<>> /\ s[Len(s)] \in Whitespace
    THEN RStrip(SubSeq(s, 1, Len(s) - 1))
    ELSE s

\* str.strip(): whitespace is removed at both ends
Strip(s) == RStrip(LStrip(s))

\* str.split(sep) with a one-character separator: n separators give n + 1
\* fields, empty fields included; the empty string gives one empty field.
RECURSIVE Split(_, _)
Split(s, sep) ==
    IF \A i \in 1..Len(s) : s[i] # sep
    THEN <<s>>
    ELSE LET i == CHOOSE k \in 1..Len(s) :
                      /\ s[k] = sep
                      /\ \A j \in 1..(k - 1) : s[j] # sep
         IN  <<SubSeq(s, 1, i - 1)>> \o Split(SubSeq(s, i + 1, Len(s)), sep)

\* int(text) accepts surrounding whitespace, an optional sign and decimal
\* digits; anything else raises ValueError.
IntBody(text) ==
    LET t == Strip(text)
    IN  IF t # <<>> /\ Head(t) \in {"+", "-"} THEN Tail(t) ELSE t

IntRaises(text) ==
    \/ IntBody(text) = <<>>
    \/ \E i \in 1..Len(IntBody(text)) : IntBody(text)[i] \notin DigitChars

RECURSIVE DigitsValue(_)
DigitsValue(ds) ==
    IF ds = <<>> THEN 0
    ELSE 10 * DigitsValue(SubSeq(ds, 1, Len(ds) - 1)) + DigitValue(ds[Len(ds)])

int(text) ==
    LET t == Strip(text)
    IN  IF t # <<>> /\ Head(t) = "-"
        THEN 0 - DigitsValue(IntBody(text))
        ELSE DigitsValue(IntBody(text))

\* The decimal text an f-string produces for a non-negative integer.
RECURSIVE Decimal(_)
Decimal(n) ==
    IF n < 10 THEN Digits[n + 1]
    ELSE Decimal(n \div 10) \o Digits[(n % 10) + 1]

----------------------------------------------------------------------------
(* The script's own functions and expressions. *)

\* parse_gt(gt): gt.split("/") and int() of every piece
GtPieces(gt) == Split(gt, "/")

\* Variant: only two-allele genotypes are accepted.
parse_gt_raises_Diploid(gt) ==
    \/ Len(Split(gt, "/")) # 2
    \/ \E i \in 1..Len(Split(gt, "/")) : IntRaises(Split(gt, "/")[i])

parse_gt_raises(gt) ==
    \E i \in 1..Len(GtPieces(gt)) : IntRaises(GtPieces(gt)[i])

parse_gt(gt) ==
    [i \in 1..Len(GtPieces(gt)) |-> int(GtPieces(gt)[i])]

\* Variant: the header test is made on the stripped line.
IsHeader_Stripped(ln) == StartsWith(Strip(ln), <<"#">>)

\* line.startswith("#")
IsHeader(ln) == StartsWith(ln, <<"#">>)

\* line.strip().split("\t")
Fields(ln) == Split(Strip(ln), TAB)

\* fields[9:]
NumMetaFields == 9

\* Variant: the slice starts one field early.
Slice9_From8(fields) == SubSeq(fields, NumMetaFields, Len(fields))

Slice9(fields) == SubSeq(fields, NumMetaFields + 1, Len(fields))

\* line.strip().split("\t")[9:]
SampleFields(ln) == Slice9(Fields(ln))

\* list(map(parse_gt, ...)) raises as soon as one field does
LineRaises(ln) ==
    \E i \in 1..Len(SampleFields(ln)) : parse_gt_raises(SampleFields(ln)[i])

ParseLine(ln) ==
    [i \in 1..Len(SampleFields(ln)) |-> parse_gt(SampleFields(ln)[i])]

----------------------------------------------------------------------------
(* The input files explored.  Every line is a fixed prefix followed by a   *)
(* free body and the line terminator; the last line of a file may lack the *)
(* terminator.  Text-mode iteration never yields an empty line.  The body  *)
(* of a record continues its first sample column, which starts with "1":   *)
(* "/1" makes it "1/1", a tab followed by text opens a second column.      *)

RECURSIVE MetaCols(_)
MetaCols(n) == IF n = 0 THEN <<>> ELSE <<".", TAB>> \o MetaCols(n - 1)

Prefixes ==
    { <<>>,                                     \* short or blank line
      MetaCols(NumMetaFields) \o <<"1">>,       \* record: 9 metadata columns, "1"
      <<"#">> \o MetaCols(NumMetaFields),       \* header with 9 columns
      <<SP, "#">> \o MetaCols(NumMetaFields),   \* whitespace before "#"
      <<TAB>> \o MetaCols(NumMetaFields - 1) }  \* empty first column

BodyAlphabet == {TAB, "/", "1", "."}

\* The file of Len(ps) lines whose i-th line is the prefix ps[i], the
\* characters of chars between the cuts i - 1 and i, and the terminator,
\* which the last line lacks when nl is false.
FileOf(ps, chars, cuts, nl) ==
    [i \in 1..Len(ps) |->
        ps[i]
        \o SubSeq(chars, (IF i = 1 THEN 0 ELSE cuts[i - 1]) + 1, cuts[i])
        \o (IF i = Len(ps) /\ ~nl THEN <<>> ELSE <<NL>>)]

IsCuts(cuts, k, n) ==
    /\ \A i \in 1..(k - 1) : cuts[i] <= cuts[i + 1]
    /\ k > 0 => cuts[k] = n

IsFile(f) ==
    \E k \in 0..MaxLines, n \in 0..MaxBody :
        /\ k = 0 => n = 0
        /\ \E cuts \in [1..k -> 0..n] :
              /\ IsCuts(cuts, k, n)
              /\ \E ps \in [1..k -> Prefixes], chars \in [1..n -> BodyAlphabet] :
                    \/ f = FileOf(ps, chars, cuts, TRUE)
                    \/ /\ k > 0
                       /\ FileOf(ps, chars, cuts, FALSE)[k] # <<>>
                       /\ f = FileOf(ps, chars, cuts, FALSE)

----------------------------------------------------------------------------
(* State of a run. *)

VARIABLES
    stream,     \* the lines the decompressed file consists of
    pos,        \* number of lines the iteration over fhand has produced
    fhand,      \* "open" or "closed"
    line,       \* the loop variable; <<>> while it is unbound
    gts,        \* the last list of parsed genotypes; <<>> while it is unbound
    snps_read,  \* the counter
    stdout,     \* lines printed so far
    pc,         \* "loop", "done" (after the print), "failed" (ValueError raised)
    exited      \* the interpreter has terminated

vars == <<stream, pos, fhand, line, gts, snps_read, stdout, pc, exited>>

\* State after gzip.open(...) and snps_read = 0.
Init ==
    /\ IsFile(stream)
    /\ pos = 0
    /\ fhand = "open"
    /\ line = <<>>
    /\ gts = <<>>
    /\ snps_read = 0
    /\ stdout = <<>>
    /\ pc = "loop"
    /\ exited = FALSE

\* for line in fhand: a next line exists
NextLine ==
    /\ pc = "loop"
    /\ pos < Len(stream)
    /\ pos' = pos + 1
    /\ line' = stream[pos + 1]

\* Variant: header lines are counted too.
SkipHeader_Counts ==
    /\ NextLine
    /\ IsHeader(line')
    /\ snps_read' = snps_read + 1
    /\ UNCHANGED <<stream, fhand, gts, stdout, pc, exited>>

\* if line.startswith("#"): continue
SkipHeader ==
    /\ NextLine
    /\ IsHeader(line')
    /\ UNCHANGED <<stream, fhand, gts, snps_read, stdout, pc, exited>>

\* Variant: the counter is assigned instead of incremented.
CountRecord_Assigns ==
    /\ NextLine
    /\ ~IsHeader(line')
    /\ ~LineRaises(line')
    /\ gts' = ParseLine(line')
    /\ snps_read' = 1
    /\ UNCHANGED <<stream, fhand, stdout, pc, exited>>

\* gts = list(map(parse_gt, ...)); snps_read += 1
CountRecord ==
    /\ NextLine
    /\ ~IsHeader(line')
    /\ ~LineRaises(line')
    /\ gts' = ParseLine(line')
    /\ snps_read' = snps_read + 1
    /\ UNCHANGED <<stream, fhand, stdout, pc, exited>>

\* int() raises ValueError inside parse_gt; nothing handles it
RaiseValueError ==
    /\ NextLine
    /\ ~IsHeader(line')
    /\ LineRaises(line')
    /\ pc' = "failed"
    /\ UNCHANGED <<stream, fhand, gts, snps_read, stdout, exited>>

\* Variant: the count is also printed after the error.
PrintCount_AfterError ==
    /\ \/ pc = "loop" /\ pos = Len(stream)
       \/ pc = "failed" /\ ~exited
    /\ stdout' = Append(stdout, "SNPs read " \o Decimal(snps_read))
    /\ pc' = "done"
    /\ UNCHANGED <<stream, pos, fhand, line, gts, snps_read, exited>>

\* the loop ends when the stream is exhausted; print(f"SNPs read {snps_read}")
PrintCount ==
    /\ pc = "loop"
    /\ pos = Len(stream)
    /\ stdout' = Append(stdout, "SNPs read " \o Decimal(snps_read))
    /\ pc' = "done"
    /\ UNCHANGED <<stream, pos, fhand, line, gts, snps_read, exited>>

\* The script never closes fhand: no close() call and no with block.  When
\* the interpreter terminates, after the print or on the unhandled error,
\* the language leaves open whether the object is finalized.
Exit ==
    /\ pc \in {"done", "failed"}
    /\ ~exited
    /\ exited' = TRUE
    /\ fhand' \in {"open", "closed"}
    /\ UNCHANGED <<stream, pos, line, gts, snps_read, stdout, pc>>

Next ==
    \/ SkipHeader
    \/ CountRecord
    \/ RaiseValueError
    \/ PrintCount
    \/ Exit

Spec == Init /\ [][Next]_vars

TypeOK ==
    /\ pos \in 0..Len(stream)
    /\ fhand \in {"open", "closed"}
    /\ snps_read \in 0..Len(stream)
    /\ Len(stdout) <= 1
    /\ pc \in {"loop", "done", "failed"}
    /\ exited \in BOOLEAN

----------------------------------------------------------------------------
(* Vocabulary of the properties, stated on the text of the lines and not   *)
(* on the script's expressions.                                            *)

BeginsWithHash(ln) == ln # <<>> /\ ln[1] = "#"

\* The line without its terminator.
Content(ln) ==
    IF ln # <<>> /\ ln[Len(ln)] = NL THEN SubSeq(ln, 1, Len(ln) - 1) ELSE ln

\* The sample columns of a line: its tab-separated fields of index 9 or more.
SampleColumns(ln) ==
    LET f == Split(Content(ln), TAB) IN SubSeq(f, 10, Len(f))

\* A "/"-separated list of non-negative decimal integers.
IsAlleleList(tok) ==
    \A i \in 1..Len(Split(tok, "/")) :
        LET piece == Split(tok, "/")[i]
        IN  /\ piece # <<>>
            /\ \A k \in 1..Len(piece) : piece[k] \in DigitChars

AllColumnsValid(ln) ==
    \A j \in 1..Len(SampleColumns(ln)) : IsAlleleList(SampleColumns(ln)[j])

\* Some sample column has a piece that int() does not accept.
HasMalformedColumn(ln) ==
    \E j \in 1..Len(SampleColumns(ln)) :
        \E i \in 1..Len(Split(SampleColumns(ln)[j], "/")) :
            IntRaises(Split(SampleColumns(ln)[j], "/")[i])

DataLines(n) == {i \in 1..n : ~BeginsWithHash(stream[i])}

\* Lines whose processing has completed.
Processed == IF pc = "failed" THEN pos - 1 ELSE pos

CountTabs(s) == Cardinality({i \in 1..Len(s) : s[i] = TAB})

RECURSIVE Join(_, _)
Join(fields, sep) ==
    IF Len(fields) = 1 THEN fields[1]
    ELSE fields[1] \o <<sep>> \o Join(Tail(fields), sep)

\* The lines obtained from ln by permuting its sample columns.
PermutedLines(ln) ==
    LET f    == Split(Content(ln), TAB)
        cols == 10..Len(f)
        term == SubSeq(ln, Len(Content(ln)) + 1, Len(ln))
    IN  { Join([i \in 1..Len(f) |-> IF i \in cols THEN f[pi[i]] ELSE f[i]], TAB)
              \o term : pi \in Permutations(cols) }

----------------------------------------------------------------------------
(* C1: when every genotype token of the file is a valid integer list, the  *)
(* run does not fail and reports exactly the number of lines that do not   *)
(* start with "#", wherever the header lines are; a file of header lines   *)
(* only, and an empty file, report 0.                                      *)
C1_CountIsDataLines ==
    (\A i \in DataLines(Len(stream)) : AllColumnsValid(stream[i]))
        => /\ pc # "failed"
           /\ pc = "done" =>
                /\ snps_read = Cardinality(DataLines(Len(stream)))
                /\ stdout = <<"SNPs read "
                                \o ToString(Cardinality(DataLines(Len(stream))))>>

\* A finished run over a record with a genotype followed by a header line.
C1_Witness ==
    /\ pc = "done"
    /\ Len(stream) = 2
    /\ ~BeginsWithHash(stream[1])
    /\ SampleColumns(stream[1]) # <<>>
    /\ AllColumnsValid(stream[1])
    /\ BeginsWithHash(stream[2])
    /\ stdout = <<"SNPs read 1">>

(* C2: in every state the counter equals the number of lines processed so  *)
(* far that do not start with "#"; it starts at 0, grows by exactly one    *)
(* per processed data line and is never decreased or reset.                *)
C2_CounterInvariant ==
    /\ [](snps_read = Cardinality(DataLines(Processed)))
    /\ [][snps_read' \in {snps_read, snps_read + 1}]_vars

\* A header and a record have been processed and the loop is still running.
C2_Witness ==
    /\ pc = "loop"
    /\ pos = 2
    /\ BeginsWithHash(stream[1])
    /\ ~BeginsWithHash(stream[2])
    /\ snps_read = 1

(* C3: whenever a data line has a sample column with a piece that is not   *)
(* an integer (an empty column included), the run fails at that line.      *)
C3_MalformedIsFatal ==
    \A i \in 1..pos :
        (~BeginsWithHash(stream[i]) /\ HasMalformedColumn(stream[i]))
            => (pc = "failed" /\ i = pos)

(* C4: the count is printed at most once and only after every line has     *)
(* been processed without error; a run that fails on a genotype token      *)
(* stops at that line, reads no later line and prints nothing.             *)
C4_PrintOnlyAtEnd ==
    /\ [](/\ Len(stdout) <= 1
          /\ stdout # <<>> => (pc = "done" /\ pos = Len(stream))
          /\ pc = "failed" => (stdout = <<>> /\ line = stream[pos]))
    /\ [][pc = "failed" => (pc' = pc /\ pos' = pos /\ stdout' = stdout)]_vars

\* A run that failed before the last line has terminated without output.
C4_Witness ==
    /\ pc = "failed"
    /\ exited
    /\ pos < Len(stream)
    /\ stdout = <<>>

(* C5: permuting the sample columns of a data line changes neither the     *)
(* success of the run nor the count.                                       *)
C5_PermutationInvariant ==
    (pos >= 1 /\ ~BeginsWithHash(line))
        => \A q \in PermutedLines(line) : LineRaises(q) <=> (pc = "failed")

(* C6: a data line whose sample columns are all "/"-separated lists of     *)
(* non-negative integers, of any ploidy and in any number, does not raise  *)
(* and increments the counter by exactly one.                              *)
C6_ValidLineCounts ==
    [][(/\ pos' = pos + 1
        /\ ~BeginsWithHash(stream[pos + 1])
        /\ AllColumnsValid(stream[pos + 1]))
          => (pc' = "loop" /\ snps_read' = snps_read + 1)]_vars

\* A record with the single diploid token "1/1" has been decoded and counted.
C6_Witness ==
    /\ pos >= 1
    /\ SampleColumns(line) = << <<"1", "/", "1">> >>
    /\ gts = << <<1, 1>> >>
    /\ snps_read >= 1

(* C7: a line is a header exactly when its raw text begins with "#"; a     *)
(* header leaves the counter and the genotypes unchanged and cannot make   *)
(* the run fail; a line with whitespace before "#" is a data line.         *)
C7_HeaderByRawPrefix ==
    [][pos' = pos + 1 =>
        IF BeginsWithHash(stream[pos + 1])
        THEN pc' = "loop" /\ snps_read' = snps_read /\ gts' = gts
        ELSE pc' = "failed" \/ snps_read' = snps_read + 1]_vars

\* A header with a malformed column was skipped and " #..." was counted.
C7_Witness ==
    /\ pc = "done"
    /\ Len(stream) = 2
    /\ BeginsWithHash(stream[1])
    /\ HasMalformedColumn(stream[1])
    /\ StartsWith(stream[2], <<SP, "#">>)
    /\ snps_read = 1

(* C8: only trailing whitespace is removed from a data line before it is   *)
(* split on tabs; every field of index 9 or more of that split is decoded  *)
(* and leading whitespace or empty fields do not shift the sample columns. *)
C8_OnlyTrailingStripped ==
    (pos >= 1 /\ ~BeginsWithHash(line))
        => LET f        == Split(RStrip(line), TAB)
               expected == SubSeq(f, 10, Len(f))
           IN  IF \E j \in 1..Len(expected) : parse_gt_raises(expected[j])
               THEN pc = "failed"
               ELSE /\ pc # "failed"
                    /\ gts = [j \in 1..Len(expected) |-> parse_gt(expected[j])]

(* C9: the stream is closed on every path, after a successful run and      *)
(* after a failed one; no run ends with the stream open.                   *)
C9_StreamClosedAtExit ==
    exited => fhand = "closed"

(* C10: a non-header line with fewer than 10 tab-separated fields after    *)
(* stripping, a blank or whitespace-only line included, yields an empty    *)
(* genotype list, does not raise and increments the counter by one.        *)
C10_ShortLineCounts ==
    [][(/\ pos' = pos + 1
        /\ ~BeginsWithHash(stream[pos + 1])
        /\ CountTabs(Strip(stream[pos + 1])) < 9)
          => (pc' = "loop" /\ gts' = <<>> /\ snps_read' = snps_read + 1)]_vars

\* A whitespace-only line has been counted.
C10_Witness ==
    /\ pc = "loop"
    /\ pos >= 1
    /\ line \in {<<NL>>, <<TAB, NL>>}
    /\ gts = <<>>
    /\ snps_read = pos

====
